---- MODULE Spec2Model ----
(***************************************************************************)
(* Model of the snake game of src/main.ts (class SnakeGameModal): the game *)
(* state, the keyboard handler, the menus and their buttons, and the       *)
(* requestAnimationFrame driver.                                           *)
(*                                                                         *)
(* Time is kept relative: timeSinceLastMove is performance.now() minus the *)
(* field lastMoveTime, the only way the code ever reads lastMoveTime       *)
(* (main.ts:485).  Assigning lastMoveTime := now is timeSinceLastMove' = 0.*)
(***************************************************************************)
EXTENDS Integers, Sequences, FiniteSets, TLC

---------------------------------------------------------------------------
(* Bounds of the model *)

\* ticks that would grow the snake beyond this length are not explored; on the
\* smallest grid a snake of this length covers every cell
MaxLen == 4
\* the clock is not advanced further than this past the last move
MaxElapsed == 60
\* animation callbacks pending besides the one this.animationFrame names
MaxStaleFrames == 1
\* menus in the container at the same time
MaxMenus == 2
\* interval timers running besides the one this.gameLoop names
MaxStrayTimers == 1

\* plugin.settings of the modelled sessions: the smallest grid the game can be
\* played on (the settings slider offers 10..40), one initial speed and one
\* speed-up step of the sliders' ranges
GridSizes == {2}
GameSpeeds == {60}
SpeedIncreases == {7}
\* milliseconds between two observations of the clock
FrameDeltas == {60}

---------------------------------------------------------------------------
(* Program constants *)

MAX_QUEUED_INPUTS == 2
FoodReward == 10
MinMoveInterval == 50
\* the fixed speed-up step of the interval-timer version of the modal
TimerSpeedStep == 2

\* the keys pressed in the modelled sessions: one key of each kind the handler
\* tells apart (Enter also stands for a key without meaning once the game runs)
Keys == {"Enter", "Escape", "ArrowUp", "ArrowDown", "ArrowLeft", "ArrowRight"}

\* the switch of keyDownHandler; "none" is newDirection = null
KeyDirection(key) ==
    CASE key \in {"ArrowUp", "w", "k"}    -> "up"
      [] key \in {"ArrowDown", "s", "j"}  -> "down"
      [] key \in {"ArrowLeft", "a", "h"}  -> "left"
      [] key \in {"ArrowRight", "d", "l"} -> "right"
      [] OTHER -> "none"

\* this.food before onOpen assigns it
NoFood == <<-1, -1>>

Range(s) == {s[i] : i \in 1 .. Len(s)}
RemoveAt(s, i) == SubSeq(s, 1, i - 1) \o SubSeq(s, i + 1, Len(s))

---------------------------------------------------------------------------
VARIABLES
    gridSize, gameSpeed, speedIncrease,   \* plugin.settings
    highScore,                  \* plugin.settings.highScore
    snake, food, direction, inputQueue, score, moveInterval,
    gameOver, gameStarted, isPaused,
    timeSinceLastMove,          \* clock - lastMoveTime
    menus,                      \* the .snake-menu elements of the container, in document order
    pauseButtonShown,           \* pauseButton.style.display = 'block'
    framePending,               \* the callback named by this.animationFrame is pending
    staleFrames,                \* pending callbacks this.animationFrame no longer names
    phase,                      \* "constructed", "open", "closed"
    hung,                       \* generateFood loops forever
    nextDirection,              \* main.ts only ever assigns 'right' to it
    gameLoop,                   \* the interval timer named by this.gameLoop is running
    strayTimers,                \* running interval timers this.gameLoop no longer names
    version                     \* the version of the modal the session runs: "main" is
                                \* src/main.ts, "timer" and "first" are the two of part_000

vars == <<gridSize, gameSpeed, speedIncrease, highScore, snake, food, direction, inputQueue,
          score, moveInterval, gameOver, gameStarted, isPaused, timeSinceLastMove,
          menus, pauseButtonShown, framePending, staleFrames, phase, hung,
          nextDirection, gameLoop, strayTimers, version>>

\* the mutable object state as one record, so that handlers compose
Cur ==
    [highScore |-> highScore, snake |-> snake, food |-> food, direction |-> direction,
     inputQueue |-> inputQueue, score |-> score, moveInterval |-> moveInterval,
     gameOver |-> gameOver, gameStarted |-> gameStarted, isPaused |-> isPaused,
     timeSinceLastMove |-> timeSinceLastMove, menus |-> menus,
     pauseButtonShown |-> pauseButtonShown, framePending |-> framePending,
     staleFrames |-> staleFrames, hung |-> hung]

Becomes(r) ==
    /\ highScore' = r.highScore
    /\ snake' = r.snake
    /\ food' = r.food
    /\ direction' = r.direction
    /\ inputQueue' = r.inputQueue
    /\ score' = r.score
    /\ moveInterval' = r.moveInterval
    /\ gameOver' = r.gameOver
    /\ gameStarted' = r.gameStarted
    /\ isPaused' = r.isPaused
    /\ timeSinceLastMove' = r.timeSinceLastMove
    /\ menus' = r.menus
    /\ pauseButtonShown' = r.pauseButtonShown
    /\ framePending' = r.framePending
    /\ staleFrames' = r.staleFrames
    /\ hung' = r.hung
    /\ Len(r.menus) <= MaxMenus
    /\ r.staleFrames <= MaxStaleFrames
    /\ Len(r.snake) <= MaxLen
    /\ UNCHANGED <<gridSize, gameSpeed, speedIncrease>>
    /\ UNCHANGED <<nextDirection, gameLoop, strayTimers, version>>

---------------------------------------------------------------------------
(* Handlers of SnakeGameModal.  Each takes the object state as a record and *)
(* yields the set of states it can return in (food placement is random).    *)

\* the cells Math.floor(Math.random() * gridSize) can draw
Cells == (0 .. gridSize - 1) \X (0 .. gridSize - 1)

\* generateFood: the cells the rejection loop can return; none = it never returns
generateFood_NoRejection(sn) == Cells

generateFood(sn) == {c \in Cells : c \notin Range(sn)}

\* isValidDirection
Opposite(d) ==
    CASE d = "up" -> "down"
      [] d = "down" -> "up"
      [] d = "left" -> "right"
      [] d = "right" -> "left"

isValidDirection_AgainstDirection(s, newDir) == ~(newDir = Opposite(s.direction))

isValidDirection(s, newDir) ==
    LET lastDir == IF Len(s.inputQueue) > 0
                   THEN s.inputQueue[Len(s.inputQueue)] ELSE s.direction
    IN ~(newDir = Opposite(lastDir))

\* the switch of updateGameState: the head advanced one cell, wrapping
MoveHead_NoWrap(head, dir) ==
    CASE dir = "up"    -> <<head[1], head[2] - 1>>
      [] dir = "down"  -> <<head[1], head[2] + 1>>
      [] dir = "left"  -> <<head[1] - 1, head[2]>>
      [] dir = "right" -> <<head[1] + 1, head[2]>>

\* the remainder taken without first adding gridSize: -1 % gridSize is -1
MoveHead_NegativeRemainder(head, dir) ==
    CASE dir = "up"    -> <<head[1], IF head[2] = 0 THEN -1 ELSE head[2] - 1>>
      [] dir = "down"  -> <<head[1], (head[2] + 1) % gridSize>>
      [] dir = "left"  -> <<IF head[1] = 0 THEN -1 ELSE head[1] - 1, head[2]>>
      [] dir = "right" -> <<(head[1] + 1) % gridSize, head[2]>>

MoveHead(head, dir) ==
    CASE dir = "up"    -> <<head[1], (head[2] - 1 + gridSize) % gridSize>>
      [] dir = "down"  -> <<head[1], (head[2] + 1) % gridSize>>
      [] dir = "left"  -> <<(head[1] - 1 + gridSize) % gridSize, head[2]>>
      [] dir = "right" -> <<(head[1] + 1) % gridSize, head[2]>>

showStartMenu(s) == [s EXCEPT !.menus = Append(@, "start")]

showPauseMenu(s) == [s EXCEPT !.menus = Append(@, "pause")]

\* the score stored without the comparison
showGameOverMenu_ScoreStored(s) ==
    [s EXCEPT !.menus = Append(@, "over"),
              !.highScore = s.score]

showGameOverMenu(s) ==
    [s EXCEPT !.menus = Append(@, "over"),
              !.highScore = IF s.score > @ THEN s.score ELSE @]

\* container.querySelector('.snake-menu')?.remove(): the first menu, if any
RemoveFirstMenu(s) ==
    [s EXCEPT !.menus = IF Len(@) > 0 THEN Tail(@) ELSE @]

initializeGame_SpeedKept(s) ==
    [s EXCEPT !.snake = << <<gridSize \div 2, gridSize \div 2>> >>,
              !.direction = "right",
              !.score = 0,
              !.gameOver = FALSE,
              !.gameStarted = FALSE]

initializeGame_ScoreKept(s) ==
    [s EXCEPT !.snake = << <<gridSize \div 2, gridSize \div 2>> >>,
              !.direction = "right",
              !.gameOver = FALSE,
              !.gameStarted = FALSE,
              !.moveInterval = gameSpeed]

initializeGame(s) ==
    [s EXCEPT !.snake = << <<gridSize \div 2, gridSize \div 2>> >>,
              !.direction = "right",
              !.score = 0,
              !.gameOver = FALSE,
              !.gameStarted = FALSE,
              !.moveInterval = gameSpeed]

\* the speed-up of a food tick
SpeedUp_FixedStep(interval) ==
    IF interval > MinMoveInterval THEN interval - 2 ELSE interval

SpeedUp(interval) ==
    IF speedIncrease > 0 /\ interval > MinMoveInterval
    THEN interval - speedIncrease ELSE interval

\* the early return of updateGameState
TickBlocked_PausedNotChecked(s) == s.gameOver

TickBlocked(s) == s.gameOver \/ s.isPaused

\* the self-collision test of updateGameState: snake.some(segment = head)
Collides_Never(sn, head) == FALSE

Collides_TailIgnored(sn, head) == head \in Range(SubSeq(sn, 1, Len(sn) - 1))

Collides(sn, head) == head \in Range(sn)

\* the snake after unshift(newHead) and, unless food was eaten, pop()
Moved_TailKept(sn, head, ate) == <<head>> \o sn

Moved(sn, head, ate) ==
    LET grown == <<head>> \o sn
    IN IF ate THEN grown ELSE SubSeq(grown, 1, Len(grown) - 1)

\* the queue consumed from the wrong end: pop() for shift()
updateGameState_Lifo(s, atClock) ==
    IF TickBlocked(s) THEN {s}
    ELSE
      LET queued == Len(s.inputQueue) > 0
          s1 == [s EXCEPT !.direction = IF queued THEN s.inputQueue[Len(s.inputQueue)] ELSE @,
                          !.inputQueue = IF queued THEN SubSeq(@, 1, Len(@) - 1) ELSE @]
          head == MoveHead(s.snake[1], s1.direction)
          ate == head = s.food
          moved == IF atClock THEN 0 ELSE MaxElapsed
      IN IF Collides(s.snake, head)
         THEN {showGameOverMenu([s1 EXCEPT !.gameOver = TRUE])}
         ELSE
           LET s2 == [s1 EXCEPT !.snake = Moved(s.snake, head, ate)] IN
           IF ate
           THEN LET s3 == [s2 EXCEPT !.score = @ + FoodReward]
                IN IF generateFood(s3.snake) = {}
                   THEN {[s3 EXCEPT !.hung = TRUE]}
                   ELSE {[s3 EXCEPT !.food = f,
                                    !.moveInterval = SpeedUp(@),
                                    !.timeSinceLastMove = moved] : f \in generateFood(s3.snake)}
           ELSE {[s2 EXCEPT !.timeSinceLastMove = moved]}

\* updateGameState(currentTime).  atClock: currentTime is the clock (a frame
\* callback); otherwise currentTime is the default 0 of a direct animate() call,
\* which leaves lastMoveTime = 0, far behind the clock.
updateGameState(s, atClock) ==
    IF TickBlocked(s) THEN {s}
    ELSE
      LET queued == Len(s.inputQueue) > 0
          s1 == [s EXCEPT !.direction = IF queued THEN Head(s.inputQueue) ELSE @,
                          !.inputQueue = IF queued THEN Tail(@) ELSE @]
          head == MoveHead(s.snake[1], s1.direction)
          ate == head = s.food
          moved == IF atClock THEN 0 ELSE MaxElapsed
      IN IF Collides(s.snake, head)
         THEN {showGameOverMenu([s1 EXCEPT !.gameOver = TRUE])}
         ELSE
           LET s2 == [s1 EXCEPT !.snake = Moved(s.snake, head, ate)] IN
           IF ate
           THEN LET s3 == [s2 EXCEPT !.score = @ + FoodReward]
                IN IF generateFood(s3.snake) = {}
                   THEN {[s3 EXCEPT !.hung = TRUE]}
                   ELSE {[s3 EXCEPT !.food = f,
                                    !.moveInterval = SpeedUp(@),
                                    !.timeSinceLastMove = moved] : f \in generateFood(s3.snake)}
           ELSE {[s2 EXCEPT !.timeSinceLastMove = moved]}

\* this.animationFrame = requestAnimationFrame(this.animate): a callback still
\* pending under the old handle stays pending, but can no longer be cancelled
requestAnimationFrame(s) ==
    [s EXCEPT !.staleFrames = IF s.framePending THEN @ + 1 ELSE @,
              !.framePending = TRUE]

\* animate(currentTime).  In a direct call currentTime is 0 and lastMoveTime was
\* just set to performance.now() >= 1, so the local timeSinceLastMove is <= -1.
animate_StartedNotChecked(s, atClock) ==
    IF s.gameOver THEN {s}
    ELSE
      LET elapsed == IF atClock THEN s.timeSinceLastMove ELSE 0 - 1
          updated == IF elapsed >= s.moveInterval THEN updateGameState(s, atClock) ELSE {s}
      IN {IF ~u.hung /\ ~u.gameOver /\ ~u.isPaused THEN requestAnimationFrame(u) ELSE u
            : u \in updated}

animate_Unpaced(s, atClock) ==
    IF ~s.gameStarted \/ s.gameOver THEN {s}
    ELSE
      LET updated == IF atClock THEN updateGameState(s, atClock) ELSE {s}
      IN {IF ~u.hung /\ ~u.gameOver /\ ~u.isPaused THEN requestAnimationFrame(u) ELSE u
            : u \in updated}

animate(s, atClock) ==
    IF ~s.gameStarted \/ s.gameOver THEN {s}
    ELSE
      LET elapsed == IF atClock THEN s.timeSinceLastMove ELSE 0 - 1
          updated == IF elapsed >= s.moveInterval THEN updateGameState(s, atClock) ELSE {s}
      IN {IF ~u.hung /\ ~u.gameOver /\ ~u.isPaused THEN requestAnimationFrame(u) ELSE u
            : u \in updated}

startGame(s) ==
    {[r EXCEPT !.pauseButtonShown = TRUE] :
        r \in animate([RemoveFirstMenu(s) EXCEPT !.gameStarted = TRUE,
                                                 !.timeSinceLastMove = 0], FALSE)}

togglePause(s) ==
    LET p == [s EXCEPT !.isPaused = ~@] IN
    IF p.isPaused
    THEN {showPauseMenu(p)}
    ELSE animate([RemoveFirstMenu(p) EXCEPT !.timeSinceLastMove = 0], FALSE)

\* without the isPaused return
keyDownHandler_PausedNotChecked(s, key) ==
    IF ~s.gameStarted
    THEN IF key \in {"Enter", " "} THEN startGame(s) ELSE {s}
    ELSE IF key = "Escape" THEN togglePause(s)
    ELSE LET newDirection == KeyDirection(key) IN
         IF /\ newDirection # "none"
            /\ isValidDirection(s, newDirection)
            /\ Len(s.inputQueue) < MAX_QUEUED_INPUTS
         THEN {[s EXCEPT !.inputQueue = Append(@, newDirection)]}
         ELSE {s}

\* the queue cap tested with <= for <
keyDownHandler_CapOffByOne(s, key) ==
    IF ~s.gameStarted
    THEN IF key \in {"Enter", " "} THEN startGame(s) ELSE {s}
    ELSE IF key = "Escape" THEN togglePause(s)
    ELSE IF s.isPaused THEN {s}
    ELSE LET newDirection == KeyDirection(key) IN
         IF /\ newDirection # "none"
            /\ isValidDirection(s, newDirection)
            /\ Len(s.inputQueue) <= MAX_QUEUED_INPUTS
         THEN {[s EXCEPT !.inputQueue = Append(@, newDirection)]}
         ELSE {s}

keyDownHandler(s, key) ==
    IF ~s.gameStarted
    THEN IF key \in {"Enter", " "} THEN startGame(s) ELSE {s}
    ELSE IF key = "Escape" THEN togglePause(s)
    ELSE IF s.isPaused THEN {s}
    ELSE LET newDirection == KeyDirection(key) IN
         IF /\ newDirection # "none"
            /\ isValidDirection(s, newDirection)
            /\ Len(s.inputQueue) < MAX_QUEUED_INPUTS
         THEN {[s EXCEPT !.inputQueue = Append(@, newDirection)]}
         ELSE {s}

\* onclick of the pause menu's 'Restart Game' button, menu i of the container
restartClick(s, i) ==
    showStartMenu(initializeGame([s EXCEPT !.isPaused = FALSE,
                                           !.menus = RemoveAt(@, i)]))

\* onclick of the game-over menu's 'Play Again' button, menu i of the container
playAgainClick(s, i) ==
    showStartMenu(initializeGame([s EXCEPT !.menus = RemoveAt(@, i)]))

---------------------------------------------------------------------------
(* Initial state: after the constructor (initializeGame; isPaused = false) *)

Init ==
    /\ gridSize \in GridSizes
    /\ gameSpeed \in GameSpeeds
    /\ speedIncrease \in SpeedIncreases
    /\ highScore = 0
    /\ snake = << <<gridSize \div 2, gridSize \div 2>> >>
    /\ food = NoFood
    /\ direction = "right"
    /\ inputQueue = << >>
    /\ score = 0
    /\ moveInterval = gameSpeed
    /\ gameOver = FALSE
    /\ gameStarted = FALSE
    /\ isPaused = FALSE
    /\ timeSinceLastMove = 0
    /\ menus = << >>
    /\ pauseButtonShown = FALSE
    /\ framePending = FALSE
    /\ staleFrames = 0
    /\ phase = "constructed"
    /\ hung = FALSE
    /\ nextDirection = "right"
    /\ gameLoop = FALSE
    /\ strayTimers = 0
    /\ version = "main"

---------------------------------------------------------------------------
(* Events *)

\* onOpen: place the first food, listen to the keyboard, show the start menu
Open ==
    /\ phase = "constructed"
    /\ phase' = "open"
    /\ IF generateFood(snake) = {}
       THEN Becomes([Cur EXCEPT !.hung = TRUE])
       ELSE \E f \in generateFood(snake) :
               Becomes(showStartMenu([Cur EXCEPT !.food = f]))

\* a keydown event on the document
KeyDown ==
    /\ phase = "open" /\ ~hung
    /\ \E key \in Keys : \E r \in keyDownHandler(Cur, key) : Becomes(r)
    /\ UNCHANGED phase

\* click on the header's pause button
PauseButtonClick ==
    /\ phase = "open" /\ ~hung /\ pauseButtonShown
    /\ \E r \in togglePause(Cur) : Becomes(r)
    /\ UNCHANGED phase

\* click on 'Start Game' of a start menu
StartClick ==
    /\ phase = "open" /\ ~hung
    /\ \E i \in 1 .. Len(menus) : menus[i] = "start"
    /\ \E r \in startGame(Cur) : Becomes(r)
    /\ UNCHANGED phase

\* click on 'Resume Game' of a pause menu
ResumeClick ==
    /\ phase = "open" /\ ~hung
    /\ \E i \in 1 .. Len(menus) : menus[i] = "pause"
    /\ \E r \in togglePause(Cur) : Becomes(r)
    /\ UNCHANGED phase

\* click on 'Restart Game' of a pause menu
RestartClick ==
    /\ phase = "open" /\ ~hung
    /\ \E i \in 1 .. Len(menus) :
          /\ menus[i] = "pause"
          /\ Becomes(restartClick(Cur, i))
    /\ UNCHANGED phase

\* click on 'Play Again' of a game-over menu
PlayAgainClick ==
    /\ phase = "open" /\ ~hung
    /\ \E i \in 1 .. Len(menus) :
          /\ menus[i] = "over"
          /\ Becomes(playAgainClick(Cur, i))
    /\ UNCHANGED phase

\* the browser runs the callback this.animationFrame names
AnimationFrame ==
    /\ phase # "constructed" /\ ~hung
    /\ framePending
    /\ \E r \in animate([Cur EXCEPT !.framePending = FALSE], TRUE) : Becomes(r)
    /\ UNCHANGED phase

\* the browser runs a callback requested under an older handle
StaleAnimationFrame ==
    /\ phase # "constructed" /\ ~hung
    /\ staleFrames > 0
    /\ \E r \in animate([Cur EXCEPT !.staleFrames = @ - 1], TRUE) : Becomes(r)
    /\ UNCHANGED phase

\* the clock advances; observed only where a pending callback can act on it
TimePasses ==
    /\ phase # "constructed" /\ ~hung
    /\ gameStarted /\ ~gameOver /\ ~isPaused
    /\ framePending \/ staleFrames > 0
    /\ \E d \in FrameDeltas :
          /\ timeSinceLastMove + d <= MaxElapsed
          /\ timeSinceLastMove' = timeSinceLastMove + d
    /\ UNCHANGED <<gridSize, gameSpeed, speedIncrease, highScore, snake, food, direction,
                   inputQueue, score, moveInterval, gameOver, gameStarted, isPaused,
                   menus, pauseButtonShown, framePending, staleFrames, phase, hung,
                   nextDirection, gameLoop, strayTimers, version>>

\* onClose: cancel the callback this.animationFrame names, stop listening,
\* empty the content element
Close ==
    /\ phase = "open" /\ ~hung
    /\ phase' = "closed"
    /\ Becomes([Cur EXCEPT !.framePending = FALSE,
                           !.menus = << >>,
                           !.pauseButtonShown = FALSE])

Next ==
    \/ Open
    \/ KeyDown
    \/ PauseButtonClick
    \/ StartClick
    \/ ResumeClick
    \/ RestartClick
    \/ PlayAgainClick
    \/ AnimationFrame
    \/ StaleAnimationFrame
    \/ TimePasses
    \/ Close

Spec == Init /\ [][Next]_vars

\* Settings of the second specification: the increase slider at 0 (off) and at
\* its maximum, from which the interval reaches the floor at the first food
AnySpeedIncreases == {0, 10}

InitAnySpeed ==
    /\ gridSize \in GridSizes
    /\ gameSpeed \in GameSpeeds
    /\ speedIncrease \in AnySpeedIncreases
    /\ highScore = 0
    /\ snake = << <<gridSize \div 2, gridSize \div 2>> >>
    /\ food = NoFood
    /\ direction = "right"
    /\ inputQueue = << >>
    /\ score = 0
    /\ moveInterval = gameSpeed
    /\ gameOver = FALSE
    /\ gameStarted = FALSE
    /\ isPaused = FALSE
    /\ timeSinceLastMove = 0
    /\ menus = << >>
    /\ pauseButtonShown = FALSE
    /\ framePending = FALSE
    /\ staleFrames = 0
    /\ phase = "constructed"
    /\ hung = FALSE
    /\ nextDirection = "right"
    /\ gameLoop = FALSE
    /\ strayTimers = 0
    /\ version = "main"

\* Settings no slider offers but loadSettings takes from the saved data as
\* they are: <<gridSize, gameSpeed>> with a grid of no cells, or a speed of 0 ms
MalformedSettings == {<<0, 60>>, <<2, 0>>}

InitMalformed ==
    /\ \E st \in MalformedSettings : gridSize = st[1] /\ gameSpeed = st[2]
    /\ speedIncrease \in SpeedIncreases
    /\ highScore = 0
    /\ snake = << <<gridSize \div 2, gridSize \div 2>> >>
    /\ food = NoFood
    /\ direction = "right"
    /\ inputQueue = << >>
    /\ score = 0
    /\ moveInterval = gameSpeed
    /\ gameOver = FALSE
    /\ gameStarted = FALSE
    /\ isPaused = FALSE
    /\ timeSinceLastMove = 0
    /\ menus = << >>
    /\ pauseButtonShown = FALSE
    /\ framePending = FALSE
    /\ staleFrames = 0
    /\ phase = "constructed"
    /\ hung = FALSE
    /\ nextDirection = "right"
    /\ gameLoop = FALSE
    /\ strayTimers = 0
    /\ version = "main"

SpecMalformed == InitMalformed /\ [][Next]_vars

SpecAnySpeed == InitAnySpeed /\ [][Next]_vars

---------------------------------------------------------------------------
(* The interval-timer version of SnakeGameModal (src/unnamed/part_000), in   *)
(* which the walls end the game.  Ticks are driven by setInterval, keys set  *)
(* nextDirection, and animate only draws and copies nextDirection.  The grid *)
(* has canvas.width / this.gridSize cells per axis; the model takes a canvas *)
(* on which adjustCanvasSize and initializeGame agree on this.gridSize, so   *)
(* that the quotient is the same in every game of the session, and holds it  *)
(* in gridSize.  The start cell (10, 10) of the 20-cell grid is its centre.  *)
(* inputQueue and timeSinceLastMove are not fields of this version.          *)

Bounded_Cur ==
    [highScore |-> highScore, snake |-> snake, food |-> food, direction |-> direction,
     nextDirection |-> nextDirection, score |-> score, moveInterval |-> moveInterval,
     gameOver |-> gameOver, gameStarted |-> gameStarted, isPaused |-> isPaused,
     menus |-> menus, pauseButtonShown |-> pauseButtonShown,
     framePending |-> framePending, staleFrames |-> staleFrames,
     gameLoop |-> gameLoop, strayTimers |-> strayTimers, hung |-> hung]

Bounded_Becomes(r) ==
    /\ highScore' = r.highScore
    /\ snake' = r.snake
    /\ food' = r.food
    /\ direction' = r.direction
    /\ nextDirection' = r.nextDirection
    /\ score' = r.score
    /\ moveInterval' = r.moveInterval
    /\ gameOver' = r.gameOver
    /\ gameStarted' = r.gameStarted
    /\ isPaused' = r.isPaused
    /\ menus' = r.menus
    /\ pauseButtonShown' = r.pauseButtonShown
    /\ framePending' = r.framePending
    /\ staleFrames' = r.staleFrames
    /\ gameLoop' = r.gameLoop
    /\ strayTimers' = r.strayTimers
    /\ hung' = r.hung
    /\ Len(r.menus) <= MaxMenus
    /\ r.staleFrames <= MaxStaleFrames
    /\ r.strayTimers <= MaxStrayTimers
    /\ Len(r.snake) <= MaxLen
    /\ UNCHANGED <<gridSize, gameSpeed, speedIncrease, inputQueue, timeSinceLastMove,
                   version>>

\* this.gameLoop = window.setInterval(...): a timer still running under the old
\* handle keeps running, but can no longer be cleared
setInterval(s) ==
    [s EXCEPT !.strayTimers = IF s.gameLoop THEN @ + 1 ELSE @,
              !.gameLoop = TRUE]

\* clearInterval(this.gameLoop)
clearInterval(s) == [s EXCEPT !.gameLoop = FALSE]

Bounded_initializeGame(s) ==
    [s EXCEPT !.snake = << <<gridSize \div 2, gridSize \div 2>> >>,
              !.direction = "right",
              !.nextDirection = "right",
              !.score = 0,
              !.gameOver = FALSE,
              !.gameStarted = FALSE,
              !.moveInterval = gameSpeed]

\* the switch of updateGameState: head.x++, head.y-- and so on, no wrapping
Bounded_MoveHead(head, dir) ==
    CASE dir = "up"    -> <<head[1], head[2] - 1>>
      [] dir = "down"  -> <<head[1], head[2] + 1>>
      [] dir = "left"  -> <<head[1] - 1, head[2]>>
      [] dir = "right" -> <<head[1] + 1, head[2]>>

\* the wall test of updateGameState
HitsWall_OffByOne(head) ==
    \/ head[1] < 0 \/ head[1] > gridSize
    \/ head[2] < 0 \/ head[2] > gridSize

HitsWall(head) ==
    \/ head[1] < 0 \/ head[1] >= gridSize
    \/ head[2] < 0 \/ head[2] >= gridSize

\* updateGameState(), the callback of every interval timer
Bounded_updateGameState(s) ==
    IF s.gameOver \/ s.isPaused THEN {s}
    ELSE
      LET s1 == [s EXCEPT !.direction = s.nextDirection]
          head == Bounded_MoveHead(s.snake[1], s1.direction)
      IN IF HitsWall(head)
         THEN {showGameOverMenu([s1 EXCEPT !.gameOver = TRUE])}
         ELSE IF head \in Range(s.snake)
         THEN {showGameOverMenu([s1 EXCEPT !.gameOver = TRUE])}
         ELSE
           LET s2 == [s1 EXCEPT !.snake = <<head>> \o @] IN
           IF head = s.food
           THEN LET s3 == [s2 EXCEPT !.score = @ + 10]
                IN IF generateFood(s3.snake) = {}
                   THEN {[s3 EXCEPT !.hung = TRUE]}
                   ELSE {IF s3.moveInterval > 50
                         THEN setInterval(clearInterval(
                                 [s3 EXCEPT !.food = f,
                                            !.moveInterval = @ - TimerSpeedStep]))
                         ELSE [s3 EXCEPT !.food = f]
                           : f \in generateFood(s3.snake)}
           ELSE {[s2 EXCEPT !.snake = SubSeq(@, 1, Len(@) - 1)]}

\* animate: besides drawing, it copies nextDirection and requests the next frame
Bounded_animate(s) ==
    IF ~s.gameStarted \/ s.gameOver THEN s
    ELSE
      LET s1 == IF ~s.isPaused THEN [s EXCEPT !.direction = s.nextDirection] ELSE s
      IN IF ~s1.gameOver /\ ~s1.isPaused THEN requestAnimationFrame(s1) ELSE s1

Bounded_startGame(s) ==
    [Bounded_animate(setInterval([RemoveFirstMenu(s) EXCEPT !.gameStarted = TRUE]))
        EXCEPT !.pauseButtonShown = TRUE]

Bounded_togglePause(s) ==
    LET p == [s EXCEPT !.isPaused = ~@] IN
    IF p.isPaused
    THEN showPauseMenu(clearInterval(p))
    ELSE setInterval(RemoveFirstMenu(p))

Bounded_keyDownHandler(s, key) ==
    IF ~s.gameStarted
    THEN IF key \in {"Enter", " "} THEN Bounded_startGame(s) ELSE s
    ELSE IF key = "Escape" THEN Bounded_togglePause(s)
    ELSE IF s.isPaused THEN s
    ELSE LET newDirection == KeyDirection(key) IN
         IF newDirection # "none" /\ s.direction # Opposite(newDirection)
         THEN [s EXCEPT !.nextDirection = newDirection]
         ELSE s

Bounded_restartClick(s, i) ==
    showStartMenu(Bounded_initializeGame([s EXCEPT !.isPaused = FALSE,
                                                   !.menus = RemoveAt(@, i)]))

Bounded_playAgainClick(s, i) ==
    showStartMenu(Bounded_initializeGame([s EXCEPT !.menus = RemoveAt(@, i)]))

\* onOpen
Bounded_Open ==
    /\ version = "timer"
    /\ phase = "constructed"
    /\ phase' = "open"
    /\ \E f \in generateFood(snake) :
           Bounded_Becomes(showStartMenu([Bounded_Cur EXCEPT !.food = f]))

Bounded_KeyDown ==
    /\ version = "timer"
    /\ phase = "open" /\ ~hung
    /\ \E key \in Keys : Bounded_Becomes(Bounded_keyDownHandler(Bounded_Cur, key))
    /\ UNCHANGED phase

Bounded_PauseButtonClick ==
    /\ version = "timer"
    /\ phase = "open" /\ ~hung /\ pauseButtonShown
    /\ Bounded_Becomes(Bounded_togglePause(Bounded_Cur))
    /\ UNCHANGED phase

Bounded_StartClick ==
    /\ version = "timer"
    /\ phase = "open" /\ ~hung
    /\ \E i \in 1 .. Len(menus) : menus[i] = "start"
    /\ Bounded_Becomes(Bounded_startGame(Bounded_Cur))
    /\ UNCHANGED phase

Bounded_ResumeClick ==
    /\ version = "timer"
    /\ phase = "open" /\ ~hung
    /\ \E i \in 1 .. Len(menus) : menus[i] = "pause"
    /\ Bounded_Becomes(Bounded_togglePause(Bounded_Cur))
    /\ UNCHANGED phase

Bounded_RestartClick ==
    /\ version = "timer"
    /\ phase = "open" /\ ~hung
    /\ \E i \in 1 .. Len(menus) :
          /\ menus[i] = "pause"
          /\ Bounded_Becomes(Bounded_restartClick(Bounded_Cur, i))
    /\ UNCHANGED phase

Bounded_PlayAgainClick ==
    /\ version = "timer"
    /\ phase = "open" /\ ~hung
    /\ \E i \in 1 .. Len(menus) :
          /\ menus[i] = "over"
          /\ Bounded_Becomes(Bounded_playAgainClick(Bounded_Cur, i))
    /\ UNCHANGED phase

\* an interval timer of the session fires: the one this.gameLoop names or a stray one
IntervalTick ==
    /\ version = "timer"
    /\ phase # "constructed" /\ ~hung
    /\ gameLoop \/ strayTimers > 0
    /\ \E r \in Bounded_updateGameState(Bounded_Cur) : Bounded_Becomes(r)
    /\ UNCHANGED phase

Bounded_AnimationFrame ==
    /\ version = "timer"
    /\ phase # "constructed" /\ ~hung
    /\ framePending
    /\ Bounded_Becomes(Bounded_animate([Bounded_Cur EXCEPT !.framePending = FALSE]))
    /\ UNCHANGED phase

Bounded_StaleAnimationFrame ==
    /\ version = "timer"
    /\ phase # "constructed" /\ ~hung
    /\ staleFrames > 0
    /\ Bounded_Becomes(Bounded_animate([Bounded_Cur EXCEPT !.staleFrames = @ - 1]))
    /\ UNCHANGED phase

\* onClose: clear the timer this.gameLoop names, cancel the callback
\* this.animationFrame names, stop listening, empty the content element
Bounded_Close ==
    /\ version = "timer"
    /\ phase = "open" /\ ~hung
    /\ phase' = "closed"
    /\ Bounded_Becomes([clearInterval(Bounded_Cur) EXCEPT !.framePending = FALSE,
                                                          !.menus = << >>,
                                                          !.pauseButtonShown = FALSE])

---------------------------------------------------------------------------
(* The first version of SnakeGameModal (src/unnamed/part_000): no menus, no  *)
(* pause; onOpen starts the one interval timer, keys set direction at once.  *)

\* generateFood of the first version: any cell, no rejection loop
First_generateFood == Cells

First_keyDownHandler(s, key) ==
    LET newDirection == KeyDirection(key) IN
    IF /\ key \in {"ArrowUp", "ArrowDown", "ArrowLeft", "ArrowRight"}
       /\ s.direction # Opposite(newDirection)
    THEN [s EXCEPT !.direction = newDirection]
    ELSE s

\* update(scoreDiv), the callback of the interval timer
update(s) ==
    IF s.gameOver THEN {clearInterval(s)}
    ELSE
      LET head == Bounded_MoveHead(s.snake[1], s.direction)
          over == HitsWall(head) \/ head \in Range(s.snake)
      IN IF over THEN {[s EXCEPT !.gameOver = TRUE]}
         ELSE
           LET s1 == [s EXCEPT !.snake = <<head>> \o @] IN
           IF head = s.food
           THEN {[s1 EXCEPT !.score = @ + 10, !.food = f] : f \in First_generateFood}
           ELSE {[s1 EXCEPT !.snake = SubSeq(@, 1, Len(@) - 1)]}

\* onOpen
First_Open ==
    /\ version = "first"
    /\ phase = "constructed"
    /\ phase' = "open"
    /\ \E f \in First_generateFood :
           Bounded_Becomes(setInterval([Bounded_Cur EXCEPT !.food = f]))

First_KeyDown ==
    /\ version = "first"
    /\ phase = "open"
    /\ \E key \in Keys : Bounded_Becomes(First_keyDownHandler(Bounded_Cur, key))
    /\ UNCHANGED phase

First_IntervalTick ==
    /\ version = "first"
    /\ phase = "open"
    /\ gameLoop
    /\ \E r \in update(Bounded_Cur) : Bounded_Becomes(r)
    /\ UNCHANGED phase

\* onClose
First_Close ==
    /\ version = "first"
    /\ phase = "open"
    /\ phase' = "closed"
    /\ Bounded_Becomes(clearInterval(Bounded_Cur))

InitBounded ==
    /\ gridSize \in GridSizes
    /\ gameSpeed \in GameSpeeds
    /\ speedIncrease \in SpeedIncreases
    /\ highScore = 0
    /\ snake = << <<gridSize \div 2, gridSize \div 2>> >>
    /\ food = NoFood
    /\ direction = "right"
    /\ inputQueue = << >>
    /\ score = 0
    /\ moveInterval = gameSpeed
    /\ gameOver = FALSE
    /\ gameStarted = FALSE
    /\ isPaused = FALSE
    /\ timeSinceLastMove = 0
    /\ menus = << >>
    /\ pauseButtonShown = FALSE
    /\ framePending = FALSE
    /\ staleFrames = 0
    /\ phase = "constructed"
    /\ hung = FALSE
    /\ nextDirection = "right"
    /\ gameLoop = FALSE
    /\ strayTimers = 0
    /\ version \in {"timer", "first"}

NextBounded ==
    \/ Bounded_Open
    \/ Bounded_KeyDown
    \/ Bounded_PauseButtonClick
    \/ Bounded_StartClick
    \/ Bounded_ResumeClick
    \/ Bounded_RestartClick
    \/ Bounded_PlayAgainClick
    \/ IntervalTick
    \/ Bounded_AnimationFrame
    \/ Bounded_StaleAnimationFrame
    \/ Bounded_Close
    \/ First_Open
    \/ First_KeyDown
    \/ First_IntervalTick
    \/ First_Close

SpecBounded == InitBounded /\ [][NextBounded]_vars

---------------------------------------------------------------------------
(* Properties *)

\* a step in which the browser runs an animate callback
FrameStep == AnimationFrame \/ StaleAnimationFrame

\* the callback run by a frame step calls updateGameState, and it does not return early
TickRuns ==
    /\ gameStarted /\ ~gameOver /\ ~isPaused
    /\ timeSinceLastMove >= moveInterval

\* the direction a tick applies and the head cell it computes, as the claims state them
AppliedDirection == IF inputQueue # << >> THEN inputQueue[1] ELSE direction

NewHead ==
    LET x == snake[1][1]
        y == snake[1][2]
    IN CASE AppliedDirection = "up"    -> <<x, IF y = 0 THEN gridSize - 1 ELSE y - 1>>
         [] AppliedDirection = "down"  -> <<x, IF y = gridSize - 1 THEN 0 ELSE y + 1>>
         [] AppliedDirection = "left"  -> <<IF x = 0 THEN gridSize - 1 ELSE x - 1, y>>
         [] AppliedDirection = "right" -> <<IF x = gridSize - 1 THEN 0 ELSE x + 1, y>>

Center == <<gridSize \div 2, gridSize \div 2>>

NoTwoCellsEqual(sn) == \A i, j \in 1 .. Len(sn) : i # j => sn[i] # sn[j]

\* C1: while gameOver is false, no two cells of the snake have the same
\* coordinates and the snake has at least one cell.
C1_SnakeCellsDistinct ==
    ~gameOver => (Len(snake) >= 1 /\ NoTwoCellsEqual(snake))

\* a running snake of three cells in a game played after a game over and a restart
C1_Witness ==
    /\ ~gameOver /\ gameStarted /\ Len(snake) = 3 /\ highScore > 0
    /\ timeSinceLastMove = 0

\* C2: once the session is opened, the food cell never coincides with a snake cell.
C2_FoodNeverOnSnake ==
    phase # "constructed" => food \notin Range(snake)

\* C3: a direction is appended to the input queue only if it is not the reverse
\* of the last queued direction (of the current direction when the queue is
\* empty), and the queue never holds two adjacent opposite directions.
C3_NoReversalAdmitted ==
    [][/\ (Len(inputQueue') = Len(inputQueue) + 1 =>
             LET follows == IF inputQueue = << >> THEN direction
                            ELSE inputQueue[Len(inputQueue)]
                 added == inputQueue'[Len(inputQueue')]
             IN /\ inputQueue' = Append(inputQueue, added)
                /\ <<follows, added>> \notin {<<"up", "down">>, <<"down", "up">>,
                                              <<"left", "right">>, <<"right", "left">>})
       /\ \A i \in 1 .. Len(inputQueue') - 1 :
             <<inputQueue'[i], inputQueue'[i + 1]>> \notin
                 {<<"up", "down">>, <<"down", "up">>, <<"left", "right">>, <<"right", "left">>}
      ]_vars

\* two directions were admitted to the queue of a running game
C3_Witness ==
    /\ gameStarted /\ ~gameOver /\ ~isPaused
    /\ Len(inputQueue) = 2 /\ inputQueue[1] # inputQueue[2]

\* C4: a tick whose new head equals a cell of the snake, the tail cell included,
\* sets gameOver and leaves snake, food, score and moveInterval as they were.
C4_SelfCollisionEndsGame ==
    [][(FrameStep /\ TickRuns /\ NewHead \in Range(snake)) =>
          /\ gameOver'
          /\ snake' = snake /\ food' = food
          /\ score' = score /\ moveInterval' = moveInterval
      ]_vars

\* the game ended on a tick that moved the head onto the tail cell
C4_Witness ==
    /\ gameOver /\ Len(snake) >= 2
    /\ snake[Len(snake)] =
          (LET x == snake[1][1]
               y == snake[1][2]
           IN CASE direction = "up"    -> <<x, (y + gridSize - 1) % gridSize>>
                [] direction = "down"  -> <<x, (y + 1) % gridSize>>
                [] direction = "left"  -> <<(x + gridSize - 1) % gridSize, y>>
                [] direction = "right" -> <<(x + 1) % gridSize, y>>)

\* C5: a tick that does not end the game pushes the new head; it keeps the tail
\* (length + 1) if the new head is the food cell, and removes the tail (length
\* unchanged, the snake shifted by one cell) otherwise.
C5_GrowOnFoodOnly ==
    [][(FrameStep /\ TickRuns /\ ~gameOver' /\ ~hung') =>
          IF NewHead = food
          THEN snake' = <<NewHead>> \o snake
          ELSE /\ Len(snake') = Len(snake)
               /\ snake'[1] = NewHead
               /\ \A i \in 2 .. Len(snake) : snake'[i] = snake[i - 1]
      ]_vars

\* a snake that grew on one tick and was shifted on a later one
C5_Witness ==
    /\ gameStarted /\ ~gameOver
    /\ Len(snake) = 2 /\ score = FoodReward
    /\ food \notin Range(snake)
    /\ timeSinceLastMove = 0 /\ snake[2] # Center /\ snake[1] # Center

\* C6: a tick while gameOver or isPaused is true changes nothing of the game
\* state; in particular it consumes no queued direction.
C6_TickNoOpWhenOverOrPaused ==
    [][(FrameStep /\ (gameOver \/ isPaused)) =>
          UNCHANGED <<snake, food, direction, inputQueue, score, moveInterval,
                      timeSinceLastMove, gameOver, isPaused>>
      ]_vars

\* the pending callback ran while the game was paused, a move was due and a
\* direction was queued
C6_Witness ==
    /\ phase = "open" /\ gameStarted /\ ~gameOver /\ isPaused
    /\ ~framePending /\ staleFrames = 0
    /\ timeSinceLastMove >= moveInterval
    /\ inputQueue # << >>

\* C7: moveInterval is never below the minimum of 50 ms.
C7_IntervalFloored == moveInterval >= MinMoveInterval

\* C8: when a new game is about to begin (gameStarted false after a restart),
\* the input queue is empty.
C8_QueueEmptyOnNewGame == ~gameStarted => inputQueue = << >>

\* C9: after a restart the snake is the single centre cell, direction is right,
\* score is 0, moveInterval is the configured gameSpeed, and gameOver and
\* gameStarted are false.
C9_RestartResets ==
    [][(RestartClick \/ PlayAgainClick) =>
          /\ snake' = <<Center>>
          /\ direction' = "right"
          /\ score' = 0
          /\ moveInterval' = gameSpeed
          /\ ~gameOver' /\ ~gameStarted'
      ]_vars

\* a restart of a game that had been sped up and lost with a positive score
C9_Witness ==
    /\ phase = "open" /\ ~gameStarted /\ highScore >= 2 * FoodReward
    /\ moveInterval = gameSpeed

\* C10: while gameOver stays true, no step changes snake, food, direction, input
\* queue, score, moveInterval or isPaused.
C10_GameOverTerminal ==
    [][(gameOver /\ gameOver') =>
          UNCHANGED <<snake, food, direction, inputQueue, score, moveInterval, isPaused>>
      ]_vars

\* C11: isPaused is true only while the game is started and not over.
C11_PausedOnlyWhileRunning == isPaused => (gameStarted /\ ~gameOver)

\* C12: from the step that pauses a running game to the step that resumes it,
\* both included, snake, food, direction, input queue, score and moveInterval
\* do not change (a restart, which leaves gameStarted false, ends the pause
\* without resuming).
C12_PauseResumePreserves ==
    [][(gameStarted /\ ~gameOver /\ gameStarted' /\ (isPaused \/ isPaused')) =>
          UNCHANGED <<snake, food, direction, inputQueue, score, moveInterval>>
      ]_vars

\* a game paused and resumed before the pending callback ran, with a direction queued
C12_Witness ==
    /\ phase = "open" /\ gameStarted /\ ~gameOver /\ ~isPaused
    /\ framePending /\ staleFrames = 1
    /\ inputQueue # << >> /\ Len(snake) >= 2

\* C13: after onClose no animation callback of the session is pending.
C13_CloseCancelsAllFrames ==
    phase = "closed" => (~framePending /\ staleFrames = 0)

\* C14: a tick computes the new head as the old head advanced one cell, each
\* coordinate wrapping at the grid edges, and it ends the game only if that cell
\* is a cell of the snake.
C14_HeadWraps ==
    [][(TickRuns /\ FrameStep) =>
          IF NewHead \in Range(snake)
          THEN gameOver'
          ELSE ~gameOver' /\ snake'[1] = NewHead
      ]_vars

\* the head left the grid on the right edge and came back in on the left one
C14_Witness ==
    /\ gameStarted /\ ~gameOver /\ direction = "right"
    /\ Len(snake) >= 2
    /\ snake[1][1] = 0 /\ snake[2][1] = gridSize - 1
    /\ snake[1][2] = snake[2][2]

\* the head is on a grid edge and the tick moves it across that edge
HeadLeavesGrid ==
    \/ AppliedDirection = "up" /\ snake[1][2] = 0
    \/ AppliedDirection = "down" /\ snake[1][2] = gridSize - 1
    \/ AppliedDirection = "left" /\ snake[1][1] = 0
    \/ AppliedDirection = "right" /\ snake[1][1] = gridSize - 1

\* C16: a tick that would move the head beyond a grid edge ends the game.
C16_WallsLethal ==
    [][(FrameStep /\ TickRuns /\ HeadLeavesGrid) => gameOver']_vars

\* C17: the input queue never holds more than 2 directions, and a direction key
\* pressed when the queue holds 2 entries, or rejected as a reversal, leaves the
\* whole state as it is.
C17_QueueBounded ==
    /\ Len(inputQueue) <= 2
    /\ \A key \in {k \in Keys : KeyDirection(k) # "none"} :
          LET follows == IF inputQueue = << >> THEN direction
                         ELSE inputQueue[Len(inputQueue)]
              reversal == <<follows, KeyDirection(key)>> \in
                             {<<"up", "down">>, <<"down", "up">>,
                              <<"left", "right">>, <<"right", "left">>}
          IN (Len(inputQueue) = 2 \/ reversal) => keyDownHandler(Cur, key) = {Cur}

\* a running game whose queue is full
C17_Witness ==
    /\ phase = "open" /\ gameStarted /\ ~gameOver /\ ~isPaused
    /\ Len(inputQueue) = 2 /\ inputQueue[1] = inputQueue[2]

\* C18: a tick that is not a no-op consumes exactly the oldest queued direction
\* and applies it; with an empty queue it keeps the current direction.
C18_QueueFifo ==
    [][(TickRuns /\ FrameStep) =>
          IF inputQueue # << >>
          THEN /\ direction' = inputQueue[1]
               /\ inputQueue' = SubSeq(inputQueue, 2, Len(inputQueue))
          ELSE /\ direction' = direction
               /\ inputQueue' = << >>
      ]_vars

\* a tick has applied the older of two queued directions and left the newer one
C18_Witness ==
    /\ gameStarted /\ ~gameOver /\ ~isPaused
    /\ timeSinceLastMove = 0
    /\ direction = "up" /\ inputQueue = <<"left">>
    /\ Len(snake) = 2 /\ snake[2] = Center

\* C19: score = 10 * (snake length - 1) in every state; the score changes only
\* by +10 on a tick whose new head is the food cell, or to 0 on a restart, and
\* every such tick that does not end the game adds 10.
C19_ScoreTracksLength ==
    [][/\ score' = 10 * (Len(snake') - 1)
       /\ (score' # score =>
             \/ score' = score + 10 /\ TickRuns /\ NewHead = food /\ FrameStep
             \/ score' = 0 /\ ~gameStarted')
       /\ (TickRuns /\ NewHead = food /\ ~gameOver' /\ FrameStep => score' = score + 10)
      ]_vars

\* a second game in which a food was eaten, after a first one that scored more
C19_Witness ==
    /\ gameStarted /\ ~gameOver
    /\ score = 10 /\ Len(snake) = 2 /\ highScore = 20
\* C20: moveInterval changes only on a tick whose new head is the food cell, by
\* exactly -speedIncrease, or on a restart, to gameSpeed; such a tick above the
\* 50 ms floor with the increase enabled does decrease it; with speedIncrease = 0
\* it equals gameSpeed in every state.
C20_IntervalFrame ==
    [][/\ (moveInterval' # moveInterval =>
             \/ /\ moveInterval' = moveInterval - speedIncrease
                /\ TickRuns /\ NewHead = food /\ FrameStep
             \/ /\ moveInterval' = gameSpeed
                /\ RestartClick \/ PlayAgainClick)
       /\ (/\ speedIncrease > 0 /\ moveInterval > 50
           /\ TickRuns /\ NewHead = food /\ ~gameOver' /\ ~hung'
           /\ moveInterval' # moveInterval - speedIncrease
           => ~FrameStep)
       /\ (moveInterval' # gameSpeed => ~(RestartClick \/ PlayAgainClick))
       /\ (speedIncrease = 0 => moveInterval' = gameSpeed)
      ]_vars

\* one food eaten with the increase enabled: the interval is one step shorter
C20_Witness ==
    /\ gameStarted /\ ~gameOver /\ speedIncrease > 0
    /\ score = 10 /\ moveInterval = gameSpeed - speedIncrease
\* the direction a tick of the part_000 versions moves in
TickDirection == IF version = "first" THEN direction ELSE nextDirection

\* that tick's head leaves the grid: a coordinate becomes -1 or gridSize
LeavesGrid ==
    \/ TickDirection = "up" /\ snake[1][2] - 1 = -1
    \/ TickDirection = "down" /\ snake[1][2] + 1 = gridSize
    \/ TickDirection = "left" /\ snake[1][1] - 1 = -1
    \/ TickDirection = "right" /\ snake[1][1] + 1 = gridSize

\* C15: in the wall-collision versions a tick whose move would put the head at
\* coordinate -1 or gridSize sets gameOver and leaves snake, score and food as
\* they are, and as long as the game stays over no step changes them.
C15_WallEndsGame ==
    [][/\ (~gameOver /\ ~isPaused /\ LeavesGrid /\ (IntervalTick \/ First_IntervalTick)
             => gameOver' /\ UNCHANGED <<snake, score, food>>)
       /\ (gameOver /\ gameOver' => UNCHANGED <<snake, score, food>>)
      ]_vars

\* a game of the timer version that ended at the right wall after one food
C15_Witness ==
    /\ version = "timer" /\ gameOver /\ score = 10 /\ Len(snake) = 2
    /\ direction = "right" /\ snake[1][1] = gridSize - 1
    /\ \E i \in 1 .. Len(menus) : menus[i] = "over"
\* C21: highScore changes only on the step that ends a game, and then to the
\* final score, which is strictly greater; it never decreases, and whenever the
\* game is over it is at least the score.
C21_HighScoreOnlyAtGameOver ==
    [][/\ (highScore' # highScore =>
             /\ ~gameOver /\ gameOver'
             /\ highScore' = score' /\ score' = score /\ score > highScore)
       /\ highScore' >= highScore
       /\ (gameOver' => highScore' >= score')
      ]_vars

\* a game that ended below the high score of an earlier one
C21_Witness ==
    /\ gameOver /\ highScore = 20 /\ score = 10
    /\ \E i \in 1 .. Len(menus) : menus[i] = "over"

\* C22: while the session is open and gameStarted is false, and on the step that
\* starts the game, snake, food, direction, input queue, score and moveInterval
\* do not change.
C22_NothingMovesBeforeStart ==
    [][(phase # "constructed" /\ ~gameStarted) =>
          UNCHANGED <<snake, food, direction, inputQueue, score, moveInterval>>
      ]_vars

\* after a restart: a callback of the game before is still pending and a move
\* interval has passed, with a direction left in the queue
C22_Witness ==
    /\ phase = "open" /\ ~gameStarted /\ ~isPaused /\ ~gameOver
    /\ framePending /\ timeSinceLastMove >= moveInterval
    /\ inputQueue # << >>
\* the snake a food tick pushes the new head onto
Grown == <<NewHead>> \o snake

\* a cell of the grid that is not a cell of sn exists
FreeCellExists(sn) ==
    \E x \in 0 .. gridSize - 1 : \E y \in 0 .. gridSize - 1 :
        \A i \in 1 .. Len(sn) : sn[i] # <<x, y>>

\* C23: the food relocation of onOpen and of a food tick returns exactly when a
\* cell of the grid is free of the snake, the head just pushed included, and
\* then the food is a cell of the grid that is no snake cell; with every cell
\* occupied it never returns.
C23_FoodRelocation ==
    [][/\ (TickRuns /\ NewHead = food /\ NewHead \notin Range(snake) /\ FrameStep =>
             IF FreeCellExists(Grown)
             THEN /\ ~hung'
                  /\ food'[1] \in 0 .. gridSize - 1 /\ food'[2] \in 0 .. gridSize - 1
                  /\ \A i \in 1 .. Len(Grown) : Grown[i] # food'
             ELSE hung' /\ food' = food)
       /\ (phase = "constructed" /\ phase' = "open" =>
             /\ ~hung'
             /\ food'[1] \in 0 .. gridSize - 1 /\ food'[2] \in 0 .. gridSize - 1
             /\ \A i \in 1 .. Len(snake) : snake[i] # food')
      ]_vars

\* the snake has eaten its way onto the last free cell: the relocation spins
C23_Witness ==
    /\ hung /\ Len(snake) = gridSize * gridSize
    /\ NoTwoCellsEqual(snake) /\ food = snake[1]
\* C24: a session whose settings have gridSize <= 0 or gameSpeed <= 0 is
\* rejected at construction: it is never opened, never runs and never hangs.
C24_MalformedRejected ==
    (gridSize <= 0 \/ gameSpeed <= 0) =>
        (phase = "constructed" /\ ~gameStarted /\ ~hung)
\* a cell of the grid: integer coordinates with 0 <= x, y < gridSize
InGrid(c) ==
    /\ c[1] \in Int /\ 0 <= c[1] /\ c[1] < gridSize
    /\ c[2] \in Int /\ 0 <= c[2] /\ c[2] < gridSize

\* C25: with gridSize > 0 every snake cell is a cell of the grid, and so is the
\* food cell from onOpen on, which is where the food field is first assigned.
C25_CellsInGrid ==
    gridSize > 0 =>
        /\ \A i \in 1 .. Len(snake) : InGrid(snake[i])
        /\ phase # "constructed" => InGrid(food)

\* a snake that ate below the start cell by leaving the grid at the bottom edge
C25_Witness ==
    /\ gameStarted /\ ~gameOver /\ Len(snake) = 2 /\ direction = "down"
    /\ snake[2] = Center /\ Center[2] = gridSize - 1 /\ snake[1] = <<Center[1], 0>>
    /\ InGrid(food)
\* C26: the snake of a started game moves only in an animation callback that
\* runs at least moveInterval (> 0) after the time recorded at the previous
\* move, start or resume; the move is one cell and, unless the food relocation
\* of that tick never returns, records the callback's time, so that a second
\* callback of the same frame does not move.
C26_TicksPaced ==
    [][(snake' # snake /\ gameStarted') =>
          /\ moveInterval > 0
          /\ timeSinceLastMove >= moveInterval
          /\ hung' \/ timeSinceLastMove' = 0
          /\ snake'[1] = NewHead
          /\ FrameStep
      ]_vars

\* two callbacks were pending for one frame: one has moved the snake, the other
\* is still to run at the same time
C26_Witness ==
    /\ phase = "open" /\ gameStarted /\ ~gameOver /\ ~isPaused
    /\ framePending /\ staleFrames = 1 /\ timeSinceLastMove = 0
    /\ Len(snake) = 1 /\ snake[1] # Center /\ inputQueue = << >>
\* C27: the direction a tick moves the snake in is never the reverse of the
\* direction the field held before the tick.
C27_TickNeverReverses ==
    [][(TickRuns /\ snake' # snake /\ FrameStep) =>
          ~(<<direction, direction'>> \in
               {<<"up", "down">>, <<"down", "up">>,
                <<"left", "right">>, <<"right", "left">>})
      ]_vars

\* animation callbacks of the session that are pending
PendingFrames == (IF framePending THEN 1 ELSE 0) + staleFrames

\* C28: at most one animation callback of the session is pending.
C28_SingleDriver == PendingFrames <= 1

\* C29: while the session is open and the game is started, not over and not
\* paused, an animation callback is pending.
C29_DriverNeverStalls ==
    (phase = "open" /\ gameStarted /\ ~gameOver /\ ~isPaused) => PendingFrames >= 1

\* C30: in the interval-timer version no interval timer is running while the
\* game is over or not started, and at most one is running at any time.
C30_GameOverStopsTimers ==
    version = "timer" =>
        /\ (gameOver \/ ~gameStarted) => (~gameLoop /\ strayTimers = 0)
        /\ (IF gameLoop THEN 1 ELSE 0) + strayTimers <= 1
\* the direction of the move that took the head from snake[2] to snake[1], in
\* the versions that do not wrap
PreviousMove ==
    CASE snake[1] = <<snake[2][1], snake[2][2] - 1>> -> "up"
      [] snake[1] = <<snake[2][1], snake[2][2] + 1>> -> "down"
      [] snake[1] = <<snake[2][1] - 1, snake[2][2]>> -> "left"
      [] snake[1] = <<snake[2][1] + 1, snake[2][2]>> -> "right"

\* C31: in the interval-timer version the direction a tick moves the snake in
\* is never the reverse of the direction of the previous move.
C31_MoveNeverReverses ==
    [][(version = "timer" /\ Len(snake) >= 2 /\ ~gameOver /\ ~isPaused /\ IntervalTick) =>
          ~(<<PreviousMove, direction'>> \in
               {<<"up", "down">>, <<"down", "up">>,
                <<"left", "right">>, <<"right", "left">>})
      ]_vars

====
